---- MODULE Spec2Model ----
(***************************************************************************)
(* Model of the Graph component (src/src/components/result/Graph.tsx): a   *)
(* React function component that keeps a curve set (data), an axis/layout  *)
(* configuration (layout) and a revision counter, and maintains them with  *)
(* three effects: the configuration effect (region, prevRegion, codingRate,*)
(* selectedPacketSize), the vertical-scale effect (yAxisLogarithmic) and   *)
(* the horizontal-range effect (windowWidth, xAxisFitFullRange).           *)
(*                                                                         *)
(* A Render step applies the state updates queued so far, renders the      *)
(* component and hands data, layout and revision to the plot.  The effects *)
(* of that render run in a later step, Effects, with the values the render *)
(* saw; the state updates they queue are applied by the next Render.       *)
(* Inputs (props, window width, toggles, legend clicks) arrive between any *)
(* two steps.  usePrevious(value) returns the value of the previous        *)
(* render: its ref is written by an effect of every render.                *)
(***************************************************************************)
EXTENDS Integers, Sequences, FiniteSets, TLC

(* ------------------------------------------------------------------ *)
(* Bounds and input sets                                               *)
(* ------------------------------------------------------------------ *)

\* The number of inputs (prop changes, resizes, toggles, legend clicks) of
\* a behaviour.
MaxInputs == 3

\* JavaScript's undefined, for values that are otherwise strings.
Undefined == "undefined"

\* The regions the host can select.  ra declares a maximum dwell time, rb
\* does not and has a different catalog, rz is a misconfigured region whose
\* maximum MAC payload size makes maxPayloadSize non-positive.
Regions ==
  [ ra |-> [ spreadingFactors |-> <<12, 7>>, bandwidths |-> <<125>>,
             loraMode |-> "lora", maxMacPayloadSize |-> 11,
             maxDwellTime |-> 400 ],
    rb |-> [ spreadingFactors |-> <<10>>, bandwidths |-> <<500, 125>>,
             loraMode |-> "lora", maxMacPayloadSize |-> 15,
             maxDwellTime |-> 0 ],
    rz |-> [ spreadingFactors |-> <<9>>, bandwidths |-> <<250>>,
             loraMode |-> "lora", maxMacPayloadSize |-> -5,
             maxDwellTime |-> 1000 ] ]

RegionIds == DOMAIN Regions

CodingRates == {"4/5", "4/8"}

PacketSizes == {12, 51}

WindowWidths == {970, 1272}

(* ------------------------------------------------------------------ *)
(* Collaborators                                                       *)
(* ------------------------------------------------------------------ *)

\* The data-rate catalog of a region: value label, colour, highlight.
getDataRates(r) ==
  CASE r = "ra" -> << [value |-> 0, color |-> "c0", highlight |-> "low"],
                      [value |-> 2, color |-> "c2", highlight |-> "high"] >>
    [] r = "rb" -> << [value |-> 3, color |-> "c3", highlight |-> "low"] >>
    [] r = "rz" -> << [value |-> 5, color |-> "c5", highlight |-> "none"] >>

\* range(start, end, step): every step-th integer from start, ending with
\* end itself.
RECURSIVE range(_, _, _)
range(start, end, step) ==
  IF start >= end THEN <<end>>
  ELSE <<start>> \o range(start + step, end, step)

\* The airtime formula is an opaque pure function: a call is kept as the
\* tuple of its arguments.
calculateAirtime(size, sf, bw, cr, mode, preamble, header, ldro, crc) ==
  [ size |-> size, sf |-> sf, bw |-> bw, cr |-> cr, mode |-> mode,
    preamble |-> preamble, header |-> header, ldro |-> ldro, crc |-> crc ]

\* A displayed coordinate: log10 applied `logs` times to `base`.
Raw(v) == [base |-> v, logs |-> 0]

Log10(c) == [base |-> c.base, logs |-> c.logs + 1]

\* toLogarithmic(logarithmic, value): the base-10 logarithm of the value
\* for the logarithmic scale, the value as it is for the linear scale.
toLogarithmic(logarithmic, value) ==
  IF logarithmic THEN Log10(value) ELSE value

(* ------------------------------------------------------------------ *)
(* Program constants                                                   *)
(* ------------------------------------------------------------------ *)

preambleLength == 8

explicitHeader == TRUE

lowDataRateOptimize == FALSE

crc == TRUE

overhead == 5

stride == 10

ChromeWidth == 312

PixelsPerByte == 6

InitialRangeMax == 100

(* ------------------------------------------------------------------ *)
(* State                                                               *)
(* ------------------------------------------------------------------ *)

VARIABLES
  region,              \* prop: id of the selected region
  codingRate,          \* prop: coding rate, or Undefined
  selectedPacketSize,  \* prop
  windowWidth,         \* useWindowWidth()
  xAxisFitFullRange,   \* useState(true)
  yAxisLogarithmic,    \* useState(false)
  revision,            \* useState(0)
  data,                \* useState([])
  layout,              \* useState({...})
  prevRegionRef,       \* ref of usePrevious(region)
  prevCodingRateRef,   \* ref of usePrevious(codingRate)
  depsConfig,          \* dependencies of the configuration effect, last render
  depsYAxis,           \* dependencies of the vertical-scale effect
  depsXAxis,           \* dependencies of the horizontal-range effect
  mounted,             \* the component has rendered at least once
  dirty,               \* a render is scheduled
  fx,                  \* the effects of the last render that have not run
                       \* yet, with the values that render saw
  queue,               \* the state updates queued by the effects and not
                       \* yet applied by a render
  pub,                 \* what the last render handed to the renderer
  inputs,              \* number of inputs received
  last,                \* the last step taken
  change               \* the input received in the last settled state: its
                       \* kind, the revision, region and coding rate before
                       \* it, and the number of inputs received since

vars == << region, codingRate, selectedPacketSize, windowWidth,
           xAxisFitFullRange, yAxisLogarithmic, revision, data, layout,
           prevRegionRef, prevCodingRateRef, depsConfig, depsYAxis,
           depsXAxis, mounted, dirty, fx, queue, pub, inputs, last, change >>

props == << region, codingRate, selectedPacketSize, windowWidth >>

hooks == << prevRegionRef, prevCodingRateRef, depsConfig, depsYAxis,
            depsXAxis, mounted, fx, queue >>

\* The layout of useState<Partial<Layout>>: the fields the effects read or
\* write.  An absent field (shapes, annotations, xaxis.fixedrange) is the
\* empty sequence.
InitialLayout ==
  [ xaxis |-> [ autorange |-> FALSE, fixedrange |-> <<>>,
                range |-> [num |-> InitialRangeMax, den |-> 1] ],
    yaxis |-> [ type |-> Undefined, title |-> Undefined ],
    shapes |-> <<>>,
    annotations |-> <<>> ]

\* No effect is waiting to run.
NoEffects ==
  [ pending |-> FALSE, config |-> FALSE, yaxis |-> FALSE, xaxis |-> FALSE,
    region |-> Undefined, codingRate |-> Undefined, logarithmic |-> FALSE,
    width |-> 0, fitFullRange |-> FALSE ]

\* No state update is queued.  data holds the array of a queued setData (at
\* most one), revs the number of queued setRevision(prev => prev + 1), ops
\* the queued setLayout updaters in call order.
EmptyQueue == [ data |-> <<>>, revs |-> 0, ops |-> <<>> ]

\* A queued setLayout updater.
LayoutOp(kind, maxDwellTime, logarithmic, width, fitFullRange) ==
  [ kind |-> kind, maxDwellTime |-> maxDwellTime, logarithmic |-> logarithmic,
    width |-> width, fitFullRange |-> fitFullRange ]

NoStep == [ op |-> "none", config |-> FALSE, recomputed |-> FALSE,
            reset |-> FALSE, overlay |-> "none", yaxis |-> FALSE,
            xaxis |-> FALSE, mutated |-> FALSE ]

Input(kind) == [NoStep EXCEPT !.op = kind]

Init ==
  /\ region \in RegionIds
  /\ codingRate \in CodingRates \cup {Undefined}
  /\ selectedPacketSize \in PacketSizes
  /\ windowWidth \in WindowWidths
  /\ xAxisFitFullRange = TRUE
  /\ yAxisLogarithmic = FALSE
  /\ revision = 0
  /\ data = <<>>
  /\ layout = InitialLayout
  /\ prevRegionRef = Undefined
  /\ prevCodingRateRef = Undefined
  /\ depsConfig = <<>>
  /\ depsYAxis = <<>>
  /\ depsXAxis = <<>>
  /\ mounted = FALSE
  /\ dirty = TRUE
  /\ fx = NoEffects
  /\ queue = EmptyQueue
  /\ pub = [shown |-> FALSE, data |-> <<>>, layout |-> InitialLayout,
            revision |-> 0]
  /\ inputs = 0
  /\ last = NoStep
  /\ change = [kind |-> "mount", n |-> 1, revision |-> 0,
               region |-> Undefined, codingRate |-> Undefined]

(* ------------------------------------------------------------------ *)
(* updateGraph                                                         *)
(* ------------------------------------------------------------------ *)

maxPayloadSizeOf(r) == Regions[r].maxMacPayloadSize + overhead

\* Variant: a region change is not seen as a reset.
resetVisibleTraces_codingRateOnly(r, cr, prevR, prevCr) == cr # prevCr

resetVisibleTraces(r, cr, prevR, prevCr) == cr # prevCr \/ r # prevR

\* Variant: every series is visible by default.
configured_alwaysVisible(dr) == "true"

configured(dr) == IF dr.highlight = "low" THEN "legendonly" ELSE "true"

\* Variant: the previous visibility is never carried forward.
visibleOf_alwaysConfigured(dr, idx, currentData, reset) == configured(dr)

\* currentData[idx]?.visible ?? configured, or configured on a reset.
visibleOf(dr, idx, currentData, reset) ==
  IF reset THEN configured(dr)
  ELSE IF idx \in DOMAIN currentData THEN currentData[idx].visible
  ELSE configured(dr)

\* One series with the airtime evaluated at x instead of x + overhead.
trace_withoutOverhead(dr, idx, cr, sf, bw, mode, ovh, maxPayloadSize, currentData, reset) ==
  LET xs == range(0, maxPayloadSize, stride)
  IN [ name |-> dr.value,
       x |-> xs,
       y |-> [ i \in DOMAIN xs |->
                 calculateAirtime(xs[i], sf, bw, cr, mode,
                                  preambleLength, explicitHeader,
                                  lowDataRateOptimize, crc) ],
       color |-> dr.color,
       width |-> IF dr.highlight = "high" THEN 3 ELSE 1,
       visible |-> visibleOf(dr, idx, currentData, reset) ]

trace(dr, idx, cr, sf, bw, mode, ovh, maxPayloadSize, currentData, reset) ==
  LET xs == range(0, maxPayloadSize, stride)
  IN [ name |-> dr.value,
       x |-> xs,
       y |-> [ i \in DOMAIN xs |->
                 calculateAirtime(xs[i] + ovh, sf, bw, cr, mode,
                                  preambleLength, explicitHeader,
                                  lowDataRateOptimize, crc) ],
       color |-> dr.color,
       width |-> IF dr.highlight = "high" THEN 3 ELSE 1,
       visible |-> visibleOf(dr, idx, currentData, reset) ]

\* Variant: the new array is mapped from the current series, so that it
\* never gets longer than a non-empty current array.
newData_overCurrent(r, cr, sf, bw, mode, ovh, maxPayloadSize, currentData, prevR, prevCr) ==
  LET dataRates == getDataRates(r)
      n == IF currentData # <<>> /\ Len(currentData) < Len(dataRates)
           THEN Len(currentData) ELSE Len(dataRates)
  IN [ idx \in 1..n |->
         trace(dataRates[idx], idx, cr, sf, bw, mode, ovh, maxPayloadSize,
               currentData, resetVisibleTraces(r, cr, prevR, prevCr)) ]

\* The array passed to setData by updateGraph when maxPayloadSize > 0.
newData(r, cr, sf, bw, mode, ovh, maxPayloadSize, currentData, prevR, prevCr) ==
  LET dataRates == getDataRates(r)
  IN [ idx \in DOMAIN dataRates |->
         trace(dataRates[idx], idx, cr, sf, bw, mode, ovh, maxPayloadSize,
               currentData, resetVisibleTraces(r, cr, prevR, prevCr)) ]

\* Variant: the curve set is replaced without a new revision.
updateGraph_sameRevision(r, cr, sf, bw, mode, ovh, mps, cur, prevR, prevCr, q) ==
  IF mps > 0
  THEN [ q EXCEPT !.data = << newData(r, cr, sf, bw, mode, ovh, mps, cur, prevR, prevCr) >> ]
  ELSE q

\* updateGraph: the queue q of state updates after the call, with
\* setData(newData) and setRevision(prev => prev + 1) when maxPayloadSize
\* (mps) is positive.  cur is the data of the render that created the
\* callback, as it is when the callback runs.
updateGraph(r, cr, sf, bw, mode, ovh, mps, cur, prevR, prevCr, q) ==
  IF mps > 0
  THEN [ q EXCEPT !.data = << newData(r, cr, sf, bw, mode, ovh, mps, cur, prevR, prevCr) >>,
                  !.revs = @ + 1 ]
  ELSE q

(* ------------------------------------------------------------------ *)
(* Layout updaters.  Each yields <<layout, revision>> from the layout  *)
(* and revision it is applied to.                                      *)
(* ------------------------------------------------------------------ *)

triggerRender(rev) == rev + 1

\* The dwell-time overlay merged into the layout by the configuration
\* effect: the line at the raw threshold, the label at the threshold under
\* the scale type the layout has at that moment.
createOverlay(current, rev, maxDwellTime) ==
  << [ current EXCEPT
         !.shapes = << [y0 |-> maxDwellTime, y1 |-> maxDwellTime] >>,
         !.annotations =
            << [ y |-> IF current.yaxis.type = "log"
                       THEN toLogarithmic(TRUE, Raw(maxDwellTime))
                       ELSE Raw(maxDwellTime) ] >> ],
     triggerRender(rev) >>

\* delete current.shapes; delete current.annotations; triggerRender()
removeOverlay(current, rev) ==
  << [current EXCEPT !.shapes = <<>>, !.annotations = <<>>],
     triggerRender(rev) >>

\* The vertical-scale effect putting the horizontal range back to its
\* initial value.
yAxisEffect_resettingRange(current, rev, logarithmic) ==
  << [ current EXCEPT
         !.xaxis.range = [num |-> InitialRangeMax, den |-> 1],
         !.yaxis = [ type |-> IF logarithmic THEN "log" ELSE "linear",
                     title |-> IF logarithmic
                               THEN "airtime (ms, logarithmic)"
                               ELSE "airtime (ms)" ],
         !.annotations =
            [ i \in DOMAIN current.annotations |->
                [y |-> toLogarithmic(logarithmic, current.annotations[i].y)] ] ],
     triggerRender(rev) >>

\* The vertical-scale effect moving the reference line as well.
yAxisEffect_movingLine(current, rev, logarithmic) ==
  << [ current EXCEPT
         !.yaxis = [ type |-> IF logarithmic THEN "log" ELSE "linear",
                     title |-> IF logarithmic
                               THEN "airtime (ms, logarithmic)"
                               ELSE "airtime (ms)" ],
         !.shapes =
            [ i \in DOMAIN current.shapes |->
                IF logarithmic THEN [y0 |-> 0, y1 |-> 0] ELSE current.shapes[i] ],
         !.annotations =
            [ i \in DOMAIN current.annotations |->
                [y |-> toLogarithmic(logarithmic, current.annotations[i].y)] ] ],
     triggerRender(rev) >>

\* The vertical-scale effect.
yAxisEffect(current, rev, logarithmic) ==
  << [ current EXCEPT
         !.yaxis = [ type |-> IF logarithmic THEN "log" ELSE "linear",
                     title |-> IF logarithmic
                               THEN "airtime (ms, logarithmic)"
                               ELSE "airtime (ms)" ],
         !.annotations =
            [ i \in DOMAIN current.annotations |->
                [y |-> toLogarithmic(logarithmic, current.annotations[i].y)] ] ],
     triggerRender(rev) >>

xaxisFixedScaleRange(width) == [num |-> width - ChromeWidth, den |-> PixelsPerByte]

\* The horizontal-range effect recomputing the range from the window width
\* in both modes.
xAxisEffect_recomputeRange(current, rev, width, fitFullRange) ==
  << [ current EXCEPT
         !.xaxis = [ autorange |-> fitFullRange,
                     fixedrange |-> <<fitFullRange>>,
                     range |-> xaxisFixedScaleRange(width) ] ],
     triggerRender(rev) >>

\* The horizontal-range effect keeping the stored range in both modes.
xAxisEffect_keepRange(current, rev, width, fitFullRange) ==
  << [ current EXCEPT
         !.xaxis = [ autorange |-> fitFullRange,
                     fixedrange |-> <<fitFullRange>>,
                     range |-> current.xaxis.range ] ],
     triggerRender(rev) >>

\* The horizontal-range effect.
xAxisEffect(current, rev, width, fitFullRange) ==
  << [ current EXCEPT
         !.xaxis = [ autorange |-> fitFullRange,
                     fixedrange |-> <<fitFullRange>>,
                     range |-> IF fitFullRange THEN current.xaxis.range
                               ELSE xaxisFixedScaleRange(width) ] ],
     triggerRender(rev) >>

\* One queued setLayout updater applied to the layout `current`.
applyOp(op, current, rev) ==
  CASE op.kind = "create" -> createOverlay(current, rev, op.maxDwellTime)
    [] op.kind = "remove" -> removeOverlay(current, rev)
    [] op.kind = "yaxis" -> yAxisEffect(current, rev, op.logarithmic)
    [] op.kind = "xaxis" -> xAxisEffect(current, rev, op.width, op.fitFullRange)

\* The queued updaters applied in call order, each to the result of the
\* one before.
RECURSIVE applyOps(_, _, _)
applyOps(ops, current, rev) ==
  IF ops = <<>> THEN << current, rev >>
  ELSE LET s == applyOp(Head(ops), current, rev)
       IN applyOps(Tail(ops), s[1], s[2])

(* ------------------------------------------------------------------ *)
(* The effects and the render                                          *)
(* ------------------------------------------------------------------ *)

\* The configuration effect once a coding rate is known: the queue after
\* updateGraph and the overlay update.
configure(r, cr, prevR, prevCr, currentData, q) ==
  LET g == updateGraph(r, cr, Regions[r].spreadingFactors[1],
                       Regions[r].bandwidths[1], Regions[r].loraMode,
                       overhead, maxPayloadSizeOf(r), currentData, prevR,
                       prevCr, q)
  IN IF Regions[r].maxDwellTime # 0
     THEN [ g EXCEPT !.ops = Append(@, LayoutOp("create", Regions[r].maxDwellTime, FALSE, 0, FALSE)) ]
     ELSE IF prevR # Undefined /\ Regions[prevR].maxDwellTime # 0
     THEN [ g EXCEPT !.ops = Append(@, LayoutOp("remove", 0, FALSE, 0, FALSE)) ]
     ELSE g

\* Variant: the effect does not return early without a coding rate.
configEffect_withoutGuard(r, cr, prevR, prevCr, currentData, q) ==
  configure(r, cr, prevR, prevCr, currentData, q)

\* The configuration effect (region, prevRegion, codingRate,
\* selectedPacketSize): the queue after it.
configEffect(r, cr, prevR, prevCr, currentData, q) ==
  IF cr = Undefined THEN q
  ELSE configure(r, cr, prevR, prevCr, currentData, q)

\* Variant: the revision, which the effect itself raises, is a dependency.
configDeps_withRevision(r, prevR, cr, size) == << r, prevR, cr, size, revision >>

\* Variant: the packet size is not a dependency of the configuration effect.
configDeps_withoutPacketSize(r, prevR, cr, size) == << r, prevR, cr >>

\* The dependency list of the configuration effect.
configDeps(r, prevR, cr, size) == << r, prevR, cr, size >>

\* The overlay update a queue holds.
overlayStep(q) ==
  IF \E i \in DOMAIN q.ops : q.ops[i].kind = "create" THEN "create"
  ELSE IF \E i \in DOMAIN q.ops : q.ops[i].kind = "remove" THEN "remove"
  ELSE "none"

\* One render of Graph.  The queued state updates are applied first (the
\* overlay removal deletes the fields of the layout object in place), then
\* the component renders with the props and state of this moment: with a
\* coding rate it hands data, layout and revision to the renderer, without
\* one it returns null.  The effects whose dependencies changed are left to
\* run with the values of this render.  `last` records the updates applied:
\* a new data array, the overlay updater, the axis updaters, and whether an
\* updater changed the layout object in place.
Render ==
  /\ dirty
  /\ ~fx.pending
  /\ LET applied == applyOps(queue.ops, layout, revision + queue.revs)
         newDataState == IF queue.data # <<>> THEN queue.data[1] ELSE data
         prevRegion == prevRegionRef
         newDepsConfig == configDeps(region, prevRegion, codingRate,
                                     selectedPacketSize)
         newDepsYAxis == << yAxisLogarithmic >>
         newDepsXAxis == << windowWidth, xAxisFitFullRange >>
     IN /\ data' = newDataState
        /\ layout' = applied[1]
        /\ revision' = applied[2]
        /\ queue' = EmptyQueue
        /\ fx' = [ pending |-> TRUE,
                   config |-> ~mounted \/ newDepsConfig # depsConfig,
                   yaxis |-> ~mounted \/ newDepsYAxis # depsYAxis,
                   xaxis |-> ~mounted \/ newDepsXAxis # depsXAxis,
                   region |-> region, codingRate |-> codingRate,
                   logarithmic |-> yAxisLogarithmic, width |-> windowWidth,
                   fitFullRange |-> xAxisFitFullRange ]
        /\ pub' = IF codingRate = Undefined
                  THEN [pub EXCEPT !.shown = FALSE]
                  ELSE [ shown |-> TRUE, data |-> newDataState,
                         layout |-> applied[1], revision |-> applied[2] ]
        /\ depsConfig' = newDepsConfig
        /\ depsYAxis' = newDepsYAxis
        /\ depsXAxis' = newDepsXAxis
        /\ last' = [ NoStep EXCEPT
                       !.op = "render",
                       !.recomputed = queue.data # <<>>,
                       !.overlay = overlayStep(queue),
                       !.yaxis = \E i \in DOMAIN queue.ops : queue.ops[i].kind = "yaxis",
                       !.xaxis = \E i \in DOMAIN queue.ops : queue.ops[i].kind = "xaxis",
                       !.mutated =
                          /\ queue.ops # <<>>
                          /\ queue.ops[1].kind = "remove"
                          /\ removeOverlay(layout, revision)[1] # layout ]
  /\ dirty' = FALSE
  /\ mounted' = TRUE
  /\ UNCHANGED << props, xAxisFitFullRange, yAxisLogarithmic, prevRegionRef,
                  prevCodingRateRef, inputs, change >>

\* The effects of the last render, in the order of their declaration:
\* usePrevious, configuration, vertical scale, horizontal range.  They see
\* the props and state of that render (fx), the previous values of the
\* usePrevious refs, and the data array of that render as it is now.
Effects ==
  /\ fx.pending
  /\ LET c == IF fx.config
              THEN configEffect(fx.region, fx.codingRate, prevRegionRef,
                                prevCodingRateRef, data, EmptyQueue)
              ELSE EmptyQueue
         y == IF fx.yaxis
              THEN [ c EXCEPT !.ops = Append(@, LayoutOp("yaxis", 0, fx.logarithmic, 0, FALSE)) ]
              ELSE c
         x == IF fx.xaxis
              THEN [ y EXCEPT !.ops = Append(@, LayoutOp("xaxis", 0, FALSE, fx.width, fx.fitFullRange)) ]
              ELSE y
         active == fx.config /\ fx.codingRate # Undefined
         recomputed == active /\ maxPayloadSizeOf(fx.region) > 0
     IN /\ queue' = x
        /\ dirty' = (dirty \/ x # EmptyQueue)
        /\ last' = [ NoStep EXCEPT
                       !.op = "effects", !.config = active,
                       !.recomputed = recomputed,
                       !.reset = recomputed /\
                                 resetVisibleTraces(fx.region, fx.codingRate,
                                                    prevRegionRef,
                                                    prevCodingRateRef),
                       !.overlay = overlayStep(c),
                       !.yaxis = fx.yaxis, !.xaxis = fx.xaxis ]
  /\ prevRegionRef' = fx.region
  /\ prevCodingRateRef' = fx.codingRate
  /\ fx' = NoEffects
  /\ UNCHANGED << props, xAxisFitFullRange, yAxisLogarithmic, revision, data,
                  layout, depsConfig, depsYAxis, depsXAxis, mounted, pub,
                  inputs, change >>

(* ------------------------------------------------------------------ *)
(* Inputs                                                              *)
(* ------------------------------------------------------------------ *)

\* No effect is waiting, no state update is queued, no render is scheduled.
Settled == mounted /\ ~dirty /\ ~fx.pending

\* Inputs reach the mounted component at any moment.
Accepting == mounted /\ inputs < MaxInputs

\* The input history: an input received in a settled state is recorded with
\* the revision, region and coding rate it found; an input that arrives
\* while an earlier one is still being processed ends the record.
Overlapping ==
  [ kind |-> "several", n |-> 2, revision |-> 0, region |-> Undefined,
    codingRate |-> Undefined ]

noteInput(kind) ==
  /\ inputs' = inputs + 1
  /\ change' = IF Settled
               THEN [kind |-> kind, n |-> 1, revision |-> revision,
                     region |-> region, codingRate |-> codingRate]
               ELSE Overlapping

SetRegion ==
  /\ Accepting
  /\ \E r \in RegionIds \ {region} : region' = r
  /\ dirty' = TRUE
  /\ last' = Input("region")
  /\ noteInput("region")
  /\ UNCHANGED << codingRate, selectedPacketSize, windowWidth,
                  xAxisFitFullRange, yAxisLogarithmic, revision, data,
                  layout, hooks, pub >>

SetCodingRate ==
  /\ Accepting
  /\ \E cr \in (CodingRates \cup {Undefined}) \ {codingRate} : codingRate' = cr
  /\ dirty' = TRUE
  /\ last' = Input("codingRate")
  /\ noteInput("codingRate")
  /\ UNCHANGED << region, selectedPacketSize, windowWidth,
                  xAxisFitFullRange, yAxisLogarithmic, revision, data,
                  layout, hooks, pub >>

SetPacketSize ==
  /\ Accepting
  /\ \E s \in PacketSizes \ {selectedPacketSize} : selectedPacketSize' = s
  /\ dirty' = TRUE
  /\ last' = Input("packetSize")
  /\ noteInput("packetSize")
  /\ UNCHANGED << region, codingRate, windowWidth, xAxisFitFullRange,
                  yAxisLogarithmic, revision, data, layout, hooks, pub >>

Resize ==
  /\ Accepting
  /\ \E w \in WindowWidths \ {windowWidth} : windowWidth' = w
  /\ dirty' = TRUE
  /\ last' = Input("resize")
  /\ noteInput("resize")
  /\ UNCHANGED << region, codingRate, selectedPacketSize, xAxisFitFullRange,
                  yAxisLogarithmic, revision, data, layout, hooks, pub >>

\* The buttons exist only while the component renders the plot.
toggleScale ==
  /\ Accepting
  /\ pub.shown
  /\ yAxisLogarithmic' = ~yAxisLogarithmic
  /\ dirty' = TRUE
  /\ last' = Input("toggleScale")
  /\ noteInput("toggleScale")
  /\ UNCHANGED << props, xAxisFitFullRange, revision, data, layout, hooks,
                  pub >>

toggleFitFullRange ==
  /\ Accepting
  /\ pub.shown
  /\ xAxisFitFullRange' = ~xAxisFitFullRange
  /\ dirty' = TRUE
  /\ last' = Input("toggleFitFullRange")
  /\ noteInput("toggleFitFullRange")
  /\ UNCHANGED << props, yAxisLogarithmic, revision, data, layout, hooks,
                  pub >>

\* A click on a legend entry: the renderer flips the visibility of a trace
\* of the data array it holds, which is the array of the state.
LegendClick ==
  /\ Accepting
  /\ pub.shown
  /\ \E i \in DOMAIN data :
       LET flipped == [ data EXCEPT ![i].visible =
                          IF @ = "true" THEN "legendonly" ELSE "true" ]
       IN /\ data' = flipped
          /\ pub' = [pub EXCEPT !.data = flipped]
  /\ last' = Input("legendClick")
  /\ noteInput("legendClick")
  /\ UNCHANGED << props, xAxisFitFullRange, yAxisLogarithmic, revision,
                  layout, hooks, dirty >>

Next ==
  \/ Render
  \/ Effects
  \/ SetRegion
  \/ SetCodingRate
  \/ SetPacketSize
  \/ Resize
  \/ toggleScale
  \/ toggleFitFullRange
  \/ LegendClick

Spec == Init /\ [][Next]_vars

TypeOK ==
  /\ region \in RegionIds
  /\ codingRate \in CodingRates \cup {Undefined}
  /\ revision \in Nat
  /\ inputs \in 0..MaxInputs
  /\ Len(data) <= 2
  /\ Len(layout.shapes) = Len(layout.annotations)
  /\ pub.shown => << pub.data, pub.layout, pub.revision >> = << data, layout, revision >>
  /\ fx.pending => queue = EmptyQueue

(* ------------------------------------------------------------------ *)
(* Properties                                                          *)
(* ------------------------------------------------------------------ *)

catalog == getDataRates(region)

\* Every series of d carries the configured default visibility of its
\* descriptor in the catalog of region r.
AllConfiguredFor(d, r) ==
  /\ Len(d) = Len(getDataRates(r))
  /\ \A i \in DOMAIN d :
       d[i].visible = IF getDataRates(r)[i].highlight = "low"
                      THEN "legendonly" ELSE "true"

AllConfigured == AllConfiguredFor(data, region)

\* One input was received in a settled state and its renders have settled.
SettledAfterOne(kinds) ==
  Settled /\ change.n = 1 /\ change.kind \in kinds

\* A step of the reaction to one input received in a settled state: a
\* render or the effects of a render, no other input having arrived.
ReactionTo(kinds) ==
  change.n = 1 /\ change.kind \in kinds /\ last'.op \in {"render", "effects"}

\* C1 Visibility preservation: a recomputation of the curve set for which
\* neither the region nor the coding rate differs from the previous
\* configuration gives every series that has a predecessor at the same
\* catalog index the visibility that predecessor has when updateGraph
\* runs, and the render that follows directly puts these series in place of
\* their predecessors with the same visibilities.
C1_VisibilityPreservation ==
  /\ [][ (last'.op = "effects" /\ last'.recomputed /\ ~last'.reset)
           => \A i \in DOMAIN queue'.data[1] :
                i \in DOMAIN data => queue'.data[1][i].visible = data[i].visible ]_vars
  /\ [][ (/\ last.op = "effects" /\ last.recomputed /\ ~last.reset
          /\ last'.op = "render")
           => \A i \in DOMAIN data' :
                i \in DOMAIN data => data'[i].visible = data[i].visible ]_vars

\* C1 witness: a packet-size-only change has been recomputed and rendered,
\* and a series still carries a visibility the user chose against the
\* default.
C1_Witness ==
  /\ last.op = "render" /\ last.recomputed
  /\ change.kind = "packetSize" /\ change.n = 1
  /\ revision > change.revision
  /\ Len(data) = Len(catalog)
  /\ \E i \in DOMAIN data : data[i].visible # configured(catalog[i])

\* C2 Visibility reset: a recomputation for which the coding rate or the
\* region differs from the previous configuration gives every series its
\* configured default visibility, and the snapshot that settles after one
\* region or coding-rate change still carries the defaults.
C2_VisibilityReset ==
  /\ (last.op = "effects" /\ last.reset)
       => AllConfiguredFor(queue.data[1], prevRegionRef)
  /\ (/\ SettledAfterOne({"region", "codingRate"})
      /\ codingRate # Undefined
      /\ maxPayloadSizeOf(region) > 0) => AllConfigured

\* C2 witness: a region change has settled on a non-empty curve set whose
\* defaults include a legend-only series.
C2_Witness ==
  /\ SettledAfterOne({"region"})
  /\ codingRate # Undefined
  /\ maxPayloadSizeOf(region) > 0
  /\ \E i \in DOMAIN data : data[i].visible = "legendonly"
  /\ AllConfigured

maxDwellTime == Regions[region].maxDwellTime

\* The dwell-time overlay of a layout: its reference line and its label.
HasOverlay(l) == l.shapes # <<>> /\ l.annotations # <<>>

NoOverlay(l) == l.shapes = <<>> /\ l.annotations = <<>>

\* C3 Overlay consistency: once the effects have settled with a coding rate
\* present, the layout has the dwell-time line and label exactly if the
\* current region declares a maximum dwell time, the line lies at that
\* dwell time, and without a dwell time both line and label are absent.
C3_OverlayConsistency ==
  (Settled /\ codingRate # Undefined) =>
     IF maxDwellTime # 0
     THEN /\ HasOverlay(layout)
          /\ layout.shapes[1].y0 = maxDwellTime
          /\ layout.shapes[1].y1 = maxDwellTime
     ELSE NoOverlay(layout)

\* C4 Revision monotonicity: the revision never decreases; a render that
\* applies a recomputed curve set, an overlay creation or removal, or a
\* vertical or horizontal axis update, and any render that changes the
\* series or the layout, strictly increases it; and a snapshot handed to
\* the renderer that differs from the one handed before carries a higher
\* revision.
C4_RevisionMonotonicity ==
  [][ /\ revision' >= revision
      /\ (last'.op = "render" /\
          (queue # EmptyQueue \/ data' # data \/ layout' # layout))
           => revision' > revision
      /\ (last'.op = "render" /\ pub'.shown /\
          << pub'.data, pub'.layout >> # << pub.data, pub.layout >>)
           => pub'.revision > pub.revision ]_vars

\* C4 witness: a render has applied the overlay removal and a recomputed
\* curve set at a revision above the one before the region change.
C4_Witness ==
  /\ last.op = "render" /\ last.overlay = "remove" /\ last.recomputed
  /\ pub.shown
  /\ change.kind = "region" /\ change.n = 1
  /\ pub.revision > change.revision

\* C5 Log-transform round trip: with an overlay of threshold T the label's
\* displayed y-coordinate is T whenever the settled vertical mode is linear
\* and log10(T) whenever it is logarithmic, after any number of toggles.
C5_LogRoundTrip ==
  (Settled /\ HasOverlay(layout)) =>
     layout.annotations[1].y =
        IF yAxisLogarithmic THEN Log10(Raw(layout.shapes[1].y0))
        ELSE Raw(layout.shapes[1].y0)

\* The series of a snapshot are those computed for region r and coding
\* rate cr.
SeriesFor(d, r, cr) ==
  /\ r # Undefined /\ cr # Undefined
  /\ Len(d) = Len(getDataRates(r))
  /\ \A i \in DOMAIN d :
       /\ d[i].name = getDataRates(r)[i].value
       /\ \A k \in DOMAIN d[i].y :
            /\ d[i].y[k].cr = cr
            /\ d[i].y[k].sf = Regions[r].spreadingFactors[1]
            /\ d[i].y[k].bw = Regions[r].bandwidths[1]

\* The overlay of a layout is the one region r calls for.
OverlayFor(l, r) ==
  /\ r # Undefined
  /\ IF Regions[r].maxDwellTime # 0
     THEN HasOverlay(l) /\ l.shapes[1].y0 = Regions[r].maxDwellTime
     ELSE NoOverlay(l)

\* C6 Atomic joint update: no render in the reaction to one change of region
\* or coding rate hands the renderer the new series with the overlay of the
\* old configuration, or the new overlay with the series of the old one.
C6_AtomicJointUpdate ==
  (/\ last.op = "render" /\ pub.shown
   /\ change.n = 1 /\ change.kind \in {"region", "codingRate"}) =>
     LET seriesNew == SeriesFor(pub.data, region, codingRate)
         seriesOld == SeriesFor(pub.data, change.region, change.codingRate)
         overlayNew == OverlayFor(pub.layout, region)
         overlayOld == OverlayFor(pub.layout, change.region)
     IN /\ ~(seriesNew /\ ~seriesOld /\ overlayOld /\ ~overlayNew)
        /\ ~(overlayNew /\ ~overlayOld /\ seriesOld /\ ~seriesNew)

\* C7 Exactly-once revision: once one region change, coding-rate change,
\* vertical toggle, horizontal toggle or fixed-scale resize has settled,
\* the revision is one above the revision before the change.
C7_ExactlyOnceRevision ==
  (/\ SettledAfterOne({"region", "codingRate", "toggleScale",
                       "toggleFitFullRange", "resize"})
   /\ codingRate # Undefined
   /\ change.codingRate # Undefined
   /\ change.kind = "resize" => ~xAxisFitFullRange)
     => revision = change.revision + 1

\* C8 as stated: a change of the packet size alone recomputes nothing and
\* leaves the revision as it was.
C8_PacketSizeIgnored ==
  (change.kind = "packetSize" /\ change.n = 1) =>
     (~last.recomputed /\ revision = change.revision)

\* C8 amended: with a coding rate present and a positive maxPayloadSize, a
\* change of the packet size alone makes the next render run the
\* configuration effect, the effect recomputes the curve set with the
\* series equal to the current ones (names, points and visibilities), and
\* the render that applies it increments the revision.
C8_PacketSizeRecomputes ==
  /\ [][ (last.op = "packetSize" /\ change.n = 1 /\ last'.op = "render")
           => fx'.config ]_vars
  /\ [][ (/\ ReactionTo({"packetSize"})
          /\ last'.op = "effects" /\ fx.config
          /\ fx.codingRate # Undefined
          /\ maxPayloadSizeOf(fx.region) > 0)
           => (last'.recomputed /\ queue'.data = << data >>) ]_vars
  /\ [][ (/\ ReactionTo({"packetSize"})
          /\ last.op = "effects" /\ last.recomputed
          /\ last'.op = "render")
           => (data' = data /\ revision' > revision) ]_vars

\* C8 witness: a packet-size-only change has been rendered with a coding
\* rate present and the curve set was recomputed at a higher revision.
C8_Witness ==
  /\ change.kind = "packetSize" /\ change.n = 1
  /\ last.op = "render" /\ last.recomputed
  /\ data # <<>>
  /\ revision > change.revision

\* C9 as stated: whatever is handed to the renderer has exactly one series
\* per descriptor of the current region's catalog, in catalog order.
SeriesMatchCatalog(d, r) ==
  /\ Len(d) = Len(getDataRates(r))
  /\ \A i \in DOMAIN d : d[i].name = getDataRates(r)[i].value

C9_SeriesMatchCatalog ==
  (Settled /\ pub.shown) => SeriesMatchCatalog(pub.data, region)

\* C9 amended: in every settled snapshot handed to the renderer for a region
\* whose maxPayloadSize is positive, the series list has exactly one series
\* per descriptor of the current region's catalog, in catalog order; this
\* includes region changes made while the coding rate was absent.
C9_SeriesMatchCatalogSettled ==
  (Settled /\ pub.shown /\ maxPayloadSizeOf(region) > 0) =>
     (SeriesMatchCatalog(pub.data, region) /\ pub.data = data)

\* C9 witness: the region was changed while the coding rate was absent, the
\* coding rate is back and the settled series are those of the new region.
C9_Witness ==
  /\ Settled /\ pub.shown
  /\ change.kind = "codingRate" /\ change.n = 1
  /\ change.codingRate = Undefined
  /\ maxPayloadSizeOf(region) > 0
  /\ SeriesMatchCatalog(pub.data, region)
  /\ Len(data) = 1

\* C10 Idle on missing coding rate: a render without a coding rate shows no
\* plot; the effects of such a render recompute no series and queue no
\* overlay creation or removal; and a region or packet-size change that
\* arrives in a settled state without a coding rate leaves the series and
\* the overlay as they are.
C10_IdleWithoutCodingRate ==
  /\ [][ (last'.op = "render" /\ codingRate = Undefined) => ~pub'.shown ]_vars
  /\ [][ (last'.op = "effects" /\ fx.codingRate = Undefined)
           => /\ ~last'.recomputed
              /\ last'.overlay = "none"
              /\ queue'.data = <<>> /\ queue'.revs = 0
              /\ \A i \in DOMAIN queue'.ops :
                   queue'.ops[i].kind \in {"yaxis", "xaxis"} ]_vars
  /\ [][ (/\ ReactionTo({"region", "packetSize"})
          /\ codingRate = Undefined)
           => /\ data' = data
              /\ layout' = layout
              /\ revision' = revision ]_vars

\* C10 witness: a region change has been rendered and its effects have run
\* without a coding rate while the series and overlay of the earlier region
\* are still in the state.
C10_Witness ==
  /\ last.op = "effects"
  /\ codingRate = Undefined
  /\ change.kind = "region" /\ change.n = 1
  /\ ~pub.shown
  /\ data # <<>>
  /\ ~SeriesMatchCatalog(data, region)
  /\ HasOverlay(layout)

\* C11 Non-positive maximum payload: every render and every run of the
\* effects in the reaction to one region or coding-rate change that yields
\* maxPayloadSize <= 0 leaves the series, the overlay (line and label) and
\* the revision as they were before the change.
C11_NonPositiveNoOp ==
  [][ (/\ ReactionTo({"region", "codingRate"})
       /\ codingRate # Undefined
       /\ maxPayloadSizeOf(region) <= 0)
        => /\ data' = data
           /\ layout'.shapes = layout.shapes
           /\ layout'.annotations = layout.annotations
           /\ revision' = revision ]_vars

\* C12 Fixed-scale formula: in every settled state whose horizontal mode is
\* fixedScale the stored horizontal range is [0, (windowWidth - 312) / 6] for
\* the current window width and auto-ranging is off, also in the snapshot the
\* renderer holds.
C12_FixedScaleFormula ==
  (Settled /\ ~xAxisFitFullRange)
    => /\ layout.xaxis.range = [num |-> windowWidth - 312, den |-> 6]
       /\ layout.xaxis.autorange = FALSE
       /\ pub.shown => pub.layout.xaxis = layout.xaxis

\* Width 970 in fixedScale after a resize: the range is [0, 658/6].
C12_Witness ==
  /\ Settled /\ ~xAxisFitFullRange /\ pub.shown
  /\ change.kind = "resize" /\ windowWidth = 970
  /\ layout.xaxis.range = [num |-> 658, den |-> 6]
  /\ pub.layout.xaxis.range = [num |-> 658, den |-> 6]

\* The sampling points the claim describes for a maximum payload m > 0:
\* 0, 10, 20, ... below m, then m itself.
SamplingDomain(m) ==
  LET n == (m + 9) \div 10
  IN [ i \in 1..(n + 1) |-> IF i <= n THEN 10 * (i - 1) ELSE m ]

\* The series list d is sampled for a maximum payload m as the claim says.
SampledOver(d, m) ==
  \A i \in DOMAIN d :
    /\ d[i].x = SamplingDomain(m)
    /\ DOMAIN d[i].y = DOMAIN d[i].x
    /\ \A j \in DOMAIN d[i].x :
         /\ d[i].y[j].size = d[i].x[j] + 5
         /\ d[i].y[j].preamble = 8
         /\ d[i].y[j].header = TRUE
         /\ d[i].y[j].ldro = FALSE
         /\ d[i].y[j].crc = TRUE

\* C13 Sampling domain: right after a recomputation with maxPayloadSize
\* M > 0 every series has the x-sequence 0, 10, ... ending at M inclusive
\* (clipped to M when M is no multiple of 10; M = 247 gives 0, 10, ..., 240,
\* 247), and every y value is the airtime formula at x + overhead with
\* preamble length 8, explicit header on, low-data-rate optimization off
\* and CRC on; the render that follows directly shows these series.
C13_SamplingDomain ==
  /\ range(0, 247, 10) = SamplingDomain(247)
  /\ SamplingDomain(247)[25] = 240 /\ SamplingDomain(247)[26] = 247
  /\ Len(SamplingDomain(247)) = 26
  /\ (last.op = "effects" /\ last.recomputed)
       => /\ maxPayloadSizeOf(prevRegionRef) > 0
          /\ SampledOver(queue.data[1], maxPayloadSizeOf(prevRegionRef))
  /\ (last.op = "render" /\ last.recomputed)
       => SampledOver(data, maxPayloadSizeOf(prevRegionRef))

\* A recomputation for region ra (M = 16, no multiple of 10) has been
\* rendered: the last point is clipped to 16 and evaluated at 21.
C13_Witness ==
  /\ last.op = "render" /\ last.recomputed /\ prevRegionRef = "ra"
  /\ Len(data) = 2
  /\ data[2].x = << 0, 10, 16 >>
  /\ data[2].y[3].size = 21

\* C14 Overlay creation under the current scale: after every render that
\* applies the creation or replacement of the overlay for a region with
\* maximum dwell time T, the line is at the raw T and the label is at
\* log10(T) if the vertical scale of the rendered layout is logarithmic and
\* at T if it is linear, also when a vertical toggle is applied in the same
\* render.
C14_OverlayUnderCurrentScale ==
  (last.op = "render" /\ last.overlay = "create")
    => LET T == Regions[prevRegionRef].maxDwellTime
       IN /\ layout.shapes = << [y0 |-> T, y1 |-> T] >>
          /\ layout.annotations =
               << [y |-> IF layout.yaxis.type = "log"
                         THEN Log10(Raw(T))
                         ELSE Raw(T)] >>

\* C15 Threshold frame: the renders and effects by which one vertical-mode
\* toggle is processed leave the reference line (y0 and y1, equal to the
\* region's maximum dwell time if they were before) and every part of the
\* layout other than the label's y-coordinate, the vertical scale type and
\* the vertical axis title unchanged.
C15_ThresholdFrame ==
  [][ ReactionTo({"toggleScale"})
        => /\ layout'.shapes = layout.shapes
           /\ DOMAIN layout'.annotations = DOMAIN layout.annotations
           /\ [layout' EXCEPT !.annotations = layout.annotations,
                              !.yaxis = layout.yaxis] = layout
           /\ (HasOverlay(layout) /\ layout.shapes[1].y0 = maxDwellTime)
                => layout'.shapes = << [y0 |-> maxDwellTime, y1 |-> maxDwellTime] >> ]_vars

\* A toggle to the logarithmic scale has been rendered for region ra: the
\* label is at log10(400), the line still at 400.
C15_Witness ==
  /\ last.op = "render" /\ last.yaxis
  /\ change.kind = "toggleScale" /\ change.n = 1
  /\ region = "ra" /\ yAxisLogarithmic
  /\ layout.yaxis.type = "log"
  /\ layout.shapes = << [y0 |-> 400, y1 |-> 400] >>
  /\ layout.annotations = << [y |-> Log10(Raw(400))] >>

(* ------------------------------------------------------------------ *)
(* updateGraph on its own: any current series list, any previous       *)
(* region and coding rate                                              *)
(* ------------------------------------------------------------------ *)

\* The series updateGraph computes for region q from no series at all.
SeriesOf(q) ==
  newData(q, "4/5", Regions[q].spreadingFactors[1], Regions[q].bandwidths[1],
          Regions[q].loraMode, overhead, maxPayloadSizeOf(q), <<>>,
          Undefined, Undefined)

\* Series lists updateGraph can find in `data`: none, or the first n series
\* of a region with any visibility the legend allows.
CurrentDataInputs ==
  { <<>> } \cup
  UNION { { [ i \in 1..qn[2] |-> [SeriesOf(qn[1])[i] EXCEPT !.visible = v[i]] ] :
              v \in [1..qn[2] -> {"true", "legendonly"}] } :
          qn \in { pm \in RegionIds \X (1..2) :
                     /\ maxPayloadSizeOf(pm[1]) > 0
                     /\ pm[2] <= Len(getDataRates(pm[1])) } }

\* The arguments and closure values of one call of updateGraph.
InitUpdateGraph ==
  /\ region \in RegionIds
  /\ codingRate \in CodingRates
  /\ selectedPacketSize = 12
  /\ windowWidth = 970
  /\ xAxisFitFullRange = TRUE
  /\ yAxisLogarithmic = FALSE
  /\ revision = 0
  /\ data \in CurrentDataInputs
  /\ layout = InitialLayout
  /\ prevRegionRef \in RegionIds \cup {Undefined}
  /\ prevCodingRateRef \in CodingRates \cup {Undefined}
  /\ depsConfig = <<>>
  /\ depsYAxis = <<>>
  /\ depsXAxis = <<>>
  /\ mounted = TRUE
  /\ dirty = FALSE
  /\ fx = NoEffects
  /\ queue = EmptyQueue
  /\ inputs = 0
  /\ pub = [shown |-> TRUE, data |-> data, layout |-> InitialLayout,
            revision |-> 0]
  /\ last = NoStep
  /\ change = [kind |-> "mount", n |-> 1, revision |-> 0,
               region |-> Undefined, codingRate |-> Undefined]

\* One call of updateGraph as the configuration effect makes it, with the
\* updates it queues applied; pub keeps the series list the call started
\* from.
ApplyUpdateGraph ==
  /\ last.op = "none"
  /\ LET q == updateGraph(region, codingRate,
                          Regions[region].spreadingFactors[1],
                          Regions[region].bandwidths[1],
                          Regions[region].loraMode, overhead,
                          maxPayloadSizeOf(region), data, prevRegionRef,
                          prevCodingRateRef, EmptyQueue)
     IN /\ data' = IF q.data # <<>> THEN q.data[1] ELSE data
        /\ revision' = revision + q.revs
        /\ last' = [ NoStep EXCEPT
                       !.op = "updateGraph",
                       !.recomputed = maxPayloadSizeOf(region) > 0,
                       !.reset = /\ maxPayloadSizeOf(region) > 0
                                 /\ resetVisibleTraces(region, codingRate,
                                                       prevRegionRef,
                                                       prevCodingRateRef) ]
  /\ UNCHANGED << props, xAxisFitFullRange, yAxisLogarithmic, layout,
                  prevRegionRef, prevCodingRateRef, depsConfig, depsYAxis,
                  depsXAxis, mounted, dirty, fx, queue, inputs, pub, change >>

NextUpdateGraph == ApplyUpdateGraph

SpecUpdateGraph == InitUpdateGraph /\ [][NextUpdateGraph]_vars

\* C16 Index-mismatch fallback: a recomputation that is not a reset yields
\* one series per catalog entry, and every series at an index where the
\* list it started from has none gets the configured default visibility of
\* its descriptor (legend-only for a low highlight, visible otherwise).
C16_IndexMismatchFallback ==
  (last.op = "updateGraph" /\ last.recomputed /\ ~last.reset)
    => /\ DOMAIN data = DOMAIN getDataRates(region)
       /\ \A i \in DOMAIN data :
            i \notin DOMAIN pub.data
              => data[i].visible =
                   IF getDataRates(region)[i].highlight = "low"
                   THEN "legendonly" ELSE "true"

\* The catalog grew: region ra has two entries, the list before held one
\* series (made visible by the user); the second series gets its default.
C16_Witness ==
  /\ last.op = "updateGraph" /\ last.recomputed /\ ~last.reset
  /\ region = "ra" /\ Len(pub.data) = 1 /\ pub.data[1].visible = "true"
  /\ Len(data) = 2
  /\ data[1].visible = "true" /\ data[2].visible = "true"

\* C17 Snapshot immutability: no render applies an update that changes, in
\* place, the layout object handed to the renderer by an earlier render;
\* every change of the layout produces a new object.
C17_SnapshotImmutability ==
  last.op = "render" => ~last.mutated

\* C18 fitAll fallback: the horizontal mode starts as fitAll with the stored
\* range [0, 100]; in every settled fitAll state the renderer is told to
\* auto-range; and a render whose horizontal updates were all queued in
\* fitAll mode (after entering fitAll or after a resize) leaves the stored
\* horizontal range as it was, so that it is the initial [0, 100] or the
\* last fixed-scale range and is not recomputed from the window width.
C18_FitAllFallback ==
  /\ [](~mounted => (xAxisFitFullRange /\ layout.xaxis.range = [num |-> 100, den |-> 1]))
  /\ []((Settled /\ xAxisFitFullRange)
          => /\ layout.xaxis.autorange = TRUE
             /\ pub.shown => pub.layout.xaxis = layout.xaxis
             /\ layout.xaxis.range \in
                  {[num |-> 100, den |-> 1]} \cup
                  {[num |-> w - 312, den |-> 6] : w \in WindowWidths})
  /\ [][ (/\ last'.op = "render"
          /\ \A i \in DOMAIN queue.ops :
               queue.ops[i].kind = "xaxis" => queue.ops[i].fitFullRange)
           => layout'.xaxis.range = layout.xaxis.range ]_vars

\* fitAll was entered from fixedScale at width 970 and the window was then
\* resized to 1272: the stored range is still [0, 658/6].
C18_Witness ==
  /\ Settled /\ xAxisFitFullRange /\ pub.shown
  /\ change.kind = "resize" /\ windowWidth = 1272
  /\ layout.xaxis.autorange = TRUE
  /\ layout.xaxis.range = [num |-> 658, den |-> 6]

\* C20 Axis independence: the steps by which one vertical toggle is
\* received, rendered and its effects run leave the horizontal mode, the
\* horizontal axis (range included) and the series list unchanged; the
\* steps by which one horizontal toggle or one window-width change is
\* received, rendered and its effects run leave the vertical mode, the
\* vertical scale type and title, the overlay (line and label coordinate)
\* and the series list unchanged.
C20_AxisIndependence ==
  [][ /\ (/\ change'.kind = "toggleScale" /\ change'.n = 1
          /\ last'.op \in {"toggleScale", "render", "effects"})
           => /\ xAxisFitFullRange' = xAxisFitFullRange
              /\ layout'.xaxis = layout.xaxis
              /\ data' = data
      /\ (/\ change'.kind \in {"toggleFitFullRange", "resize"} /\ change'.n = 1
          /\ last'.op \in {"toggleFitFullRange", "resize", "render", "effects"})
           => /\ yAxisLogarithmic' = yAxisLogarithmic
              /\ layout'.yaxis = layout.yaxis
              /\ layout'.shapes = layout.shapes
              /\ layout'.annotations = layout.annotations
              /\ data' = data ]_vars

\* A resize has been rendered in fixedScale while region ra is shown on the
\* logarithmic scale: the range follows the width, the overlay and the
\* vertical axis are those of the logarithmic scale.
C20_Witness ==
  /\ last.op = "render" /\ last.xaxis /\ ~last.yaxis /\ ~last.recomputed
  /\ change.kind = "resize" /\ change.n = 1
  /\ region = "ra" /\ yAxisLogarithmic /\ ~xAxisFitFullRange
  /\ layout.xaxis.range = [num |-> windowWidth - 312, den |-> 6]
  /\ layout.yaxis.type = "log"
  /\ layout.shapes = << [y0 |-> 400, y1 |-> 400] >>
  /\ layout.annotations = << [y |-> Log10(Raw(400))] >>
  /\ Len(data) = 2

(* ------------------------------------------------------------------ *)
(* One input at a time: every input is received in a settled state;    *)
(* a scheduled render is eventually performed and the effects of a     *)
(* render are eventually run                                           *)
(* ------------------------------------------------------------------ *)

NextSingleInput ==
  \/ Render
  \/ Effects
  \/ (Settled /\ SetRegion)
  \/ (Settled /\ SetCodingRate)
  \/ (Settled /\ SetPacketSize)
  \/ (Settled /\ Resize)
  \/ (Settled /\ toggleScale)
  \/ (Settled /\ toggleFitFullRange)

SpecSingleInput ==
  Init /\ [][NextSingleInput]_vars /\ WF_vars(Render) /\ WF_vars(Effects)

\* C19 Quiescence: after a single input every pending render or effect
\* leads to a settled state; in a settled state the revision does not
\* change until the next input; and the configuration effect is scheduled
\* by a render that follows the effects of the previous render only when
\* the previous region recorded in its dependencies was stale, after which
\* it is the current region, so that the effect cannot trigger itself
\* again.
C19_Quiescence ==
  /\ (dirty \/ fx.pending) ~> Settled
  /\ [][ Settled => revision' = revision ]_vars
  /\ [][ (last.op = "effects" /\ last'.op = "render" /\ fx'.config)
           => (depsConfig[2] # region /\ depsConfig'[2] = region) ]_vars

\* A region change has settled after the configuration effect ran twice
\* (once for the new region, once for the tracked previous region) and the
\* effects of the last render found nothing to do.
C19_Witness ==
  /\ Settled /\ last.op = "effects" /\ ~last.config
  /\ change.kind = "region" /\ change.n = 1
  /\ codingRate # Undefined /\ maxPayloadSizeOf(region) > 0
  /\ depsConfig[2] = region
  /\ revision >= change.revision + 2

====
